---- MODULE Spec2Model ----
(***************************************************************************)
(* Model of the shopRAG query pipeline: the input guardrails               *)
(* (backend/services/guardrails.py), the two retriever backends            *)
(* (retriever_postgres.py, retriever.py), the LLM client (llm_client.py,   *)
(* api/llm_monitoring.py), the pipeline orchestrator (rag_pipeline.py)     *)
(* and the start of the API process (api/main.py).                         *)
(*                                                                         *)
(* Text is modelled as a sequence of tokens, each a record [w, n] of the   *)
(* token's spelling and its number of characters, so that len(), strip(),  *)
(* lower() and re.search() are computed and not assumed.  Time is the      *)
(* reading of datetime.now() in whole seconds.  Distances are hundredths.  *)
(***************************************************************************)
EXTENDS Naturals, Integers, Sequences, FiniteSets, TLC

VARIABLES
    now,                \* reading of datetime.now(), seconds
    rate_limit_store,   \* InputGuardrails.rate_limit_store: user -> list of timestamps
    recent,             \* ghost: per user, timestamps of accepted calls within the last window
    blocked,            \* ghost: per user, rate-limit rejections since the last accepted call (capped)
    last,               \* ghost: the last validate_query call and its outcome
    mode,               \* RAGPipeline.mode
    retriever_mode,     \* RETRIEVER_MODE, the backend behind RAGPipeline.retriever
    product_cache,      \* RAGPipeline.product_cache: ASIN -> product metadata
    reviews,            \* the stored reviews the retriever searches
    pc,                 \* position of the query in progress
    req,                \* arguments of the query in progress
    calls,              \* ghost: the services the query in progress has called, in order
    documents,          \* _query_full / _query_mock local: the retrieved documents
    primary_asin,       \* _query_full local
    product_metadata,   \* _query_full / _query_mock local
    result,             \* what query() returned, or the error it raised
    metrics,            \* MetricsStore counters
    prom,               \* Prometheus counters and gauges
    at_start,           \* ghost: prom and metrics as they were when the query started
    threads,            \* per thread inside _check_rate_limit: its position and its locals
    app,                \* the API process: its configuration, rag_pipeline and what it served
    llm                 \* one generate_response call: its arguments, prompt and outcome

gvars == <<now, rate_limit_store, recent, blocked, last>>
cvars == <<mode, retriever_mode, product_cache, reviews>>
qvars == <<pc, req, calls, documents, primary_asin, product_metadata, result>>
mvars == <<metrics, prom, at_start>>
xvars == <<threads, app, llm>>
vars == <<gvars, cvars, qvars, mvars, xvars>>

\* ---------------------------------------------------------------------------
\* Program constants
\* ---------------------------------------------------------------------------
MAX_QUERY_LENGTH == 500
MIN_QUERY_LENGTH == 3
MAX_REQUESTS == 20
WINDOW_SECONDS == 60

\* ---------------------------------------------------------------------------
\* Bounds of the model
\* ---------------------------------------------------------------------------
MaxTime == 120
MaxBlocked == 2

Users == {"default", "u1"}
Steps == {30}

\* validate_query's user_id defaults to "default", and every caller in the
\* repository (rag_pipeline.py:113, rag_pipeline.py:216) leaves it at that.
DEFAULT_USER == "default"

\* ---------------------------------------------------------------------------
\* Text
\* ---------------------------------------------------------------------------
WS == [w |-> " ", n |-> 1]
Txt(k) == [w |-> "txt", n |-> k]
Kw(s, k) == [w |-> s, n |-> k]

IsSpace(t) == t.w = " "

RECURSIVE StrLen(_)
StrLen(s) == IF s = <<>> THEN 0 ELSE Head(s).n + StrLen(Tail(s))

RECURSIVE LStrip(_)
LStrip(s) == IF s # <<>> /\ IsSpace(Head(s)) THEN LStrip(Tail(s)) ELSE s

RECURSIVE RStrip(_)
RStrip(s) ==
    IF s # <<>> /\ IsSpace(s[Len(s)]) THEN RStrip(SubSeq(s, 1, Len(s) - 1)) ELSE s

Strip(s) == RStrip(LStrip(s))

LowerWord(w) ==
    CASE w = "SYSTEM:" -> "system:"
      [] w = "Ignore All Instructions" -> "ignore all instructions"
      [] w = "You Are Now" -> "you are now"
      [] w = "The" -> "the"
      [] w = "Battery" -> "battery"
      [] w = "This" -> "this"
      [] w = "Customers" -> "customers"
      [] w = "Please" -> "please"
      [] w = "I" -> "i"
      [] OTHER -> w

Lower(s) == [i \in 1..Len(s) |-> [w |-> LowerWord(s[i].w), n |-> s[i].n]]

\* re.search(PROMPT_INJECTION_PATTERNS[p], s, re.IGNORECASE) on a token sequence.
\* Pattern 2 ends in \s+ and so needs white space after the phrase.
Search(p, s) ==
    LET t == Lower(s) IN
    CASE p = 1 -> \E i \in 1..Len(t) : t[i].w = "ignore all instructions"
      [] p = 2 -> \E i \in 1..Len(t) : t[i].w = "you are now" /\ i < Len(t) /\ IsSpace(t[i + 1])
      [] p = 3 -> \E i \in 1..Len(t) : t[i].w = "system:"
      [] p = 4 -> \E i \in 1..Len(t) : t[i].w = "forget everything"
      [] p = 5 -> \E i \in 1..Len(t) : t[i].w = "disregard previous"
      [] p = 6 -> \E i \in 1..Len(t) : t[i].w = "new instructions"
      [] p = 7 -> \E i \in 1..Len(t) : t[i].w = "pretend you are"
      [] OTHER -> FALSE

PROMPT_INJECTION_PATTERNS == 1..7

PatternText(p) ==
    CASE p = 1 -> "ignore all instructions"
      [] p = 2 -> "you are now"
      [] p = 3 -> "system:"
      [] p = 4 -> "forget everything"
      [] p = 5 -> "disregard previous"
      [] p = 6 -> "new instructions"
      [] OTHER -> "pretend you are"

\* ---------------------------------------------------------------------------
\* InputGuardrails
\* ---------------------------------------------------------------------------
Min(S) == CHOOSE x \in S : \A y \in S : x <= y

\* Variant: the message names the pattern that matched.
_detect_prompt_injection_echo(query) ==
    LET query_lower == Lower(query)
        hits == {p \in PROMPT_INJECTION_PATTERNS : Search(p, query_lower)}
    IN  IF hits # {} THEN <<TRUE, PatternText(Min(hits))>> ELSE <<FALSE, "">>

_detect_prompt_injection(query) ==
    LET query_lower == Lower(query)
        hits == {p \in PROMPT_INJECTION_PATTERNS : Search(p, query_lower)}
    IN  IF hits # {} THEN <<TRUE, "Invalid query detected">> ELSE <<FALSE, "">>

\* Variant: nothing is ever dropped from the list.
Prune_keep(user_requests, t) == user_requests

\* The pruned list of the user's requests: those newer than the cutoff.
Prune(user_requests, t) ==
    SelectSeq(user_requests, LAMBDA ts : ts > t - WINDOW_SECONDS)

StoredRequests(store, user_id) ==
    IF user_id \in DOMAIN store THEN store[user_id] ELSE <<>>

\* Variant: the limit is reached one request late.
LimitExceeded_late(user_requests) == Len(user_requests) > MAX_REQUESTS

LimitExceeded(user_requests) == Len(user_requests) >= MAX_REQUESTS

\* Variant: a rejected request is written to the store as well.
_check_rate_limit_counts_rejected(store, user_id, t) ==
    LET user_requests == Prune(StoredRequests(store, user_id), t)
        store1 == [u \in DOMAIN store \cup {user_id} |-> StoredRequests(store, u)]
    IN  IF LimitExceeded(user_requests)
        THEN <<TRUE, "Too many requests. Maximum 20 per 1 minute(s)",
               [store1 EXCEPT ![user_id] = Append(user_requests, t)]>>
        ELSE <<FALSE, "",
               [store1 EXCEPT ![user_id] = Append(user_requests, t)]>>

\* _check_rate_limit: <<is_rate_limited, message, store after the call>>
_check_rate_limit(store, user_id, t) ==
    LET user_requests == Prune(StoredRequests(store, user_id), t)
        store1 == [u \in DOMAIN store \cup {user_id} |-> StoredRequests(store, u)]
    IN  IF LimitExceeded(user_requests)
        THEN <<TRUE, "Too many requests. Maximum 20 per 1 minute(s)", store1>>
        ELSE <<FALSE, "",
               [store1 EXCEPT ![user_id] = Append(user_requests, t)]>>

\* Variant: the length is taken of the query as typed.
QueryClean_unstripped(query) == query

\* query_clean = query.strip()
QueryClean(query) == Strip(query)

\* Variant: the injection check comes before the length checks.
validate_query_injection_first(store, query, user_id, t) ==
    LET query_clean == QueryClean(query)
        inj == _detect_prompt_injection(query_clean)
    IN
    IF query = <<>> \/ Strip(query) = <<>>
    THEN <<FALSE, "Query cannot be empty", store>>
    ELSE IF inj[1]
    THEN <<FALSE, inj[2], store>>
    ELSE IF StrLen(query_clean) < MIN_QUERY_LENGTH
    THEN <<FALSE, "Query too short (minimum 3 characters)", store>>
    ELSE IF StrLen(query_clean) > MAX_QUERY_LENGTH
    THEN <<FALSE, "Query too long (maximum 500 characters)", store>>
    ELSE LET rl == _check_rate_limit(store, user_id, t) IN
         IF rl[1] THEN <<FALSE, rl[2], rl[3]>> ELSE <<TRUE, "", rl[3]>>

\* validate_query: <<is_valid, error_message, store after the call>>
validate_query(store, query, user_id, t) ==
    LET query_clean == QueryClean(query) IN
    IF query = <<>> \/ Strip(query) = <<>>
    THEN <<FALSE, "Query cannot be empty", store>>
    ELSE IF StrLen(query_clean) < MIN_QUERY_LENGTH
    THEN <<FALSE, "Query too short (minimum 3 characters)", store>>
    ELSE IF StrLen(query_clean) > MAX_QUERY_LENGTH
    THEN <<FALSE, "Query too long (maximum 500 characters)", store>>
    ELSE LET inj == _detect_prompt_injection(query_clean) IN
         IF inj[1]
         THEN <<FALSE, inj[2], store>>
         ELSE LET rl == _check_rate_limit(store, user_id, t) IN
              IF rl[1] THEN <<FALSE, rl[2], rl[3]>> ELSE <<TRUE, "", rl[3]>>

\* ---------------------------------------------------------------------------
\* Query texts
\* ---------------------------------------------------------------------------
Cores ==
    { <<>>,
      <<Txt(1)>>, <<Txt(2)>>, <<Txt(3)>>, <<Txt(20)>>,
      <<Txt(5), WS, Txt(5)>>,
      <<Txt(499)>>, <<Txt(500)>>, <<Txt(501)>>,
      <<Kw("system:", 7)>>,
      <<Kw("SYSTEM:", 7), WS, Txt(4)>>,
      <<Kw("you are now", 11)>>,
      <<Kw("You Are Now", 11), WS, Txt(6)>>,
      <<Kw("Ignore All Instructions", 23)>>,
      <<Kw("forget everything", 17)>>,
      <<Kw("disregard previous", 18)>>,
      <<Txt(4), WS, Kw("new instructions", 16)>>,
      <<Kw("pretend you are", 15), WS, Txt(3)>>,
      <<Txt(492), WS, Kw("system:", 7)>>,
      <<Txt(493), WS, Kw("system:", 7)>> }

Pads == { <<>>, <<WS>>, <<WS, WS>> }

Queries == { l \o c \o r : l \in Pads, c \in Cores, r \in Pads }

GuardQueries ==
    { <<Txt(20)>>, <<>>, <<WS>>, <<Txt(2)>>, <<Txt(501)>>, <<Kw("system:", 7)>> }

\* ---------------------------------------------------------------------------
\* Ghost bookkeeping of the guardrail
\* ---------------------------------------------------------------------------
NoCall == [user |-> "", query |-> <<>>, valid |-> FALSE, reason |-> "none",
           at |-> 0, recent_before |-> 0, blocked_before |-> 0, store_before |-> <<>>]

RateLimited(reason) == reason = "Too many requests. Maximum 20 per 1 minute(s)"

Idle ==
    /\ pc = "idle"
    /\ req = <<>>
    /\ calls = <<>>
    /\ documents = <<>>
    /\ primary_asin = "None"
    /\ product_metadata = <<>>
    /\ result = <<>>
    /\ metrics = [total_queries |-> 0, guardrail_failures |-> 0]
    /\ prom = [rag_queries_total |-> 0, rag_llm_calls_total |-> 0, rag_errors_total |-> 0,
               rag_guardrail_failures |-> 0, rag_active_requests |-> 0,
               llm_calls_total |-> 0, llm_errors_total |-> 0]
    /\ at_start = <<>>

\* The pipeline is used by one thread, outside the API process, and no
\* generate_response call is looked at on its own.
SingleThread == threads = <<>>
Standalone == app = <<>>
NoLlmCall == llm = <<>>

\* InputGuardrails.__init__
NewGuardrails ==
    /\ now = 0
    /\ rate_limit_store = <<>>
    /\ recent = [u \in Users |-> <<>>]
    /\ blocked = [u \in Users |-> 0]
    /\ last = NoCall

GuardInit ==
    /\ mode = "FULL" /\ retriever_mode = "postgres"
    /\ product_cache = <<>> /\ reviews = <<>>
    /\ Idle
    /\ NewGuardrails
    /\ SingleThread /\ Standalone /\ NoLlmCall

\* One call of validate_query(query, user_id) at the current time.
Validate(user_id, query) ==
    LET r == validate_query(rate_limit_store, query, user_id, now) IN
    /\ rate_limit_store' = r[3]
    /\ recent' = IF r[1] THEN [recent EXCEPT ![user_id] = Append(@, now)] ELSE recent
    /\ blocked' = IF r[1] THEN [blocked EXCEPT ![user_id] = 0]
                  ELSE IF RateLimited(r[2]) /\ blocked[user_id] < MaxBlocked
                       THEN [blocked EXCEPT ![user_id] = @ + 1]
                       ELSE blocked
    /\ last' = [user |-> user_id, query |-> query, valid |-> r[1], reason |-> r[2],
                at |-> now,
                recent_before |-> Len(recent[user_id]),
                blocked_before |-> blocked[user_id],
                store_before |-> rate_limit_store]
    /\ UNCHANGED now

\* A validate_query call made directly on the guardrails object.
ValidateCall(user_id, query) ==
    /\ Validate(user_id, query)
    /\ UNCHANGED <<xvars, cvars, qvars, mvars>>

\* The clock moves on.
Tick(d) ==
    /\ now + d <= MaxTime
    /\ now' = now + d
    /\ recent' = [u \in Users |->
                    SelectSeq(recent[u], LAMBDA ts : ts > now + d - WINDOW_SECONDS)]
    /\ UNCHANGED <<rate_limit_store, blocked, last>>
    /\ UNCHANGED <<xvars, cvars, qvars, mvars>>

GuardValidate == \E q \in GuardQueries : ValidateCall(DEFAULT_USER, q)
GuardTick == \E d \in Steps : Tick(d)

GuardNext == GuardValidate \/ GuardTick

SpecGuard == GuardInit /\ [][GuardNext]_vars

\* ---------------------------------------------------------------------------
\* Stored reviews and the product cache
\* ---------------------------------------------------------------------------
DISTANCE_THRESHOLD == 65
MIN_REVIEW_CHARS == 30

MaxTopK == 3
MaxQueries == 2

\* A stored review.  distance is its distance to the query embedding, in
\* hundredths; review_rating is <<r>> for the rating r and <<>> for an SQL NULL;
\* text is a text of len characters.
Row(i, a, d, len, rating) ==
    [id |-> i, asin |-> a, distance |-> d, text_chars |-> len, review_rating |-> rating,
     text |-> <<Kw("battery", 7), WS, Txt(len - 8)>>,
     product_name |-> <<"name of", a>>, category |-> "Cell Phones",
     product_avg_rating |-> 4]

\* The rows the ingestion keeps (text_processor.py:71-95) carry a rating and a
\* combined text of 44 characters or more; the table itself accepts any row.
Reviews ==
    << Row(1, "A", 10, 80, <<5>>),
       Row(2, "B", 10, 60, <<4>>),
       Row(3, "A", 40, 44, <<1>>),
       Row(4, "B", 65, 90, <<5>>),
       Row(5, "C", 90, 70, <<3>>),
       Row(6, "A", 5, 29, <<5>>),
       Row(7, "B", 7, 50, <<0>>),
       Row(8, "A", 8, 50, <<>>) >>

Ingested(table) ==
    SelectSeq(table, LAMBDA r : r.review_rating # <<>> /\ r.review_rating # <<0>>
                                 /\ r.text_chars >= 44)

Tables == { Reviews, <<>> }

CacheEntry(a) ==
    [title |-> <<"title of", a>>, main_category |-> "Cell Phones & Accessories",
     average_rating |-> 4, rating_number |-> 10, price |-> "9.99",
     features |-> <<"f1">>, description |-> "d", store |-> "s"]

Caches == { [a \in S |-> CacheEntry(a)] : S \in { {}, {"A"}, {"A", "B"} } }

EmptyMetadata == <<>>

\* ---------------------------------------------------------------------------
\* Retrievers
\* ---------------------------------------------------------------------------
Range(f) == { f[i] : i \in DOMAIN f }

Truthy(x) == x # "None" /\ x # ""

\* Variant: the top_k nearest rows, in any order.
Nearest_unordered(table, cand, top_k) ==
    LET n == IF top_k < Cardinality(cand) THEN top_k ELSE Cardinality(cand) IN
    { s \in [1..n -> cand] :
        /\ \A i, j \in 1..n : i < j => s[i] # s[j]
        /\ \A i \in 1..n : \A r \in cand \ Range(s) :
              table[s[i]].distance <= table[r].distance }

\* ORDER BY distance LIMIT top_k over the row numbers in cand: every sequence of
\* min(top_k, |cand|) different rows in non-decreasing distance that leaves out
\* no row closer than its last one.  Rows at equal distance come in any order.
Nearest(table, cand, top_k) ==
    LET n == IF top_k < Cardinality(cand) THEN top_k ELSE Cardinality(cand) IN
    { s \in [1..n -> cand] :
        /\ \A i, j \in 1..n : i < j =>
              /\ s[i] # s[j]
              /\ table[s[i]].distance <= table[s[j]].distance
        /\ \A i \in 1..n : \A r \in cand \ Range(s) :
              table[s[i]].distance <= table[r].distance }

PgDocument(row) ==
    [id |-> row.id, text |-> row.text, text_chars |-> row.text_chars,
     distance |-> row.distance,
     metadata |-> [asin |-> row.asin, product_name |-> row.product_name,
                   category |-> row.category,
                   product_avg_rating |-> row.product_avg_rating,
                   review_rating |-> IF row.review_rating # <<>>
                                     THEN row.review_rating[1] ELSE 0]]

\* PostgresVectorRetriever.retrieve: the possible document lists
PostgresRetrieve(table, top_k, filter_by_asin) ==
    LET cand == { i \in 1..Len(table) :
                    /\ Truthy(filter_by_asin) => table[i].asin = filter_by_asin
                    /\ table[i].distance < DISTANCE_THRESHOLD
                    /\ table[i].text_chars >= MIN_REVIEW_CHARS
                    /\ table[i].review_rating # <<>>
                    /\ table[i].review_rating[1] > 0 }
    IN  { [i \in 1..Len(s) |-> PgDocument(table[s[i]])] : s \in Nearest(table, cand, top_k) }

\* VectorRetriever.retrieve: the possible document lists
ChromaRetrieve(table, top_k, filter_by_asin) ==
    LET cand == { i \in 1..Len(table) :
                    Truthy(filter_by_asin) => table[i].asin = filter_by_asin }
    IN  { [i \in 1..Len(s) |-> PgDocument(table[s[i]])] : s \in Nearest(table, cand, top_k) }

\* Variant: the retriever ignores the ASIN it is given.
Retrieve_unfiltered(backend, table, top_k, filter_by_asin) ==
    IF backend = "postgres"
    THEN PostgresRetrieve(table, top_k, "None")
    ELSE ChromaRetrieve(table, top_k, "None")

Retrieve(backend, table, top_k, filter_by_asin) ==
    IF backend = "postgres"
    THEN PostgresRetrieve(table, top_k, filter_by_asin)
    ELSE ChromaRetrieve(table, top_k, filter_by_asin)

\* ---------------------------------------------------------------------------
\* Counters
\* ---------------------------------------------------------------------------
Inc(counters, name) == [counters EXCEPT ![name] = @ + 1]
Dec(counters, name) == [counters EXCEPT ![name] = @ - 1]

\* ---------------------------------------------------------------------------
\* LLM client
\* ---------------------------------------------------------------------------
APOLOGY ==
    << Kw("I", 1), WS, Kw("apologize,", 10), WS, Kw("but", 3), WS, Kw("I", 1), WS,
       Kw("couldn't", 8), WS, Kw("generate", 8), WS, Kw("a", 1), WS, Kw("response.", 9),
       WS, Kw("Please", 6), WS, Kw("try", 3), WS, Kw("again.", 6) >>

EMAIL == Kw("[EMAIL]", 7)
PHONE == Kw("[PHONE]", 7)

\* Whether the token's first and last characters are word characters (\w).
StartsWithWordChar(t) ==
    ~IsSpace(t) /\ t.w \notin {"(555)", ".", "[EMAIL]", "[PHONE]"}

EndsWithWordChar(t) ==
    ~IsSpace(t) /\ t.w \notin {"(555)", ".", "[EMAIL]", "[PHONE]", "apologize,",
                               "response.", "again.", "durability.", "point."}

\* \b before token i and after token i of s
BoundaryBefore(s, i) == (i > 1 /\ EndsWithWordChar(s[i - 1])) # StartsWithWordChar(s[i])
BoundaryAfter(s, i) == EndsWithWordChar(s[i]) # (i < Len(s) /\ StartsWithWordChar(s[i + 1]))

\* The last token of the match of pattern p that starts at token i, 0 if there
\* is none.  The patterns are those of lines 32, 35 and 36:
\*   "email"  \b[A-Za-z0-9._%+-]+@[A-Za-z0-9.-]+\.[A-Z|a-z]{2,}\b
\*   "phone"  \b\d{3}[-.]?\d{3}[-.]?\d{4}\b
\*   "paren"  \b\(\d{3}\)\s*\d{3}[-.]?\d{4}\b
MatchEnd(p, s, i) ==
    CASE p = "email" ->
           IF s[i].w = "a@b.com" /\ BoundaryBefore(s, i) /\ BoundaryAfter(s, i)
           THEN i ELSE 0
      [] p = "phone" ->
           IF s[i].w = "555-123-4567" /\ BoundaryBefore(s, i) /\ BoundaryAfter(s, i)
           THEN i ELSE 0
      [] OTHER ->
           IF s[i].w = "(555)" /\ BoundaryBefore(s, i)
           THEN LET ends == { k \in (i + 1)..Len(s) :
                                /\ s[k].w = "123-4567"
                                /\ \A j \in (i + 1)..(k - 1) : IsSpace(s[j])
                                /\ BoundaryAfter(s, k) }
                IN  IF ends = {} THEN 0 ELSE Min(ends)
           ELSE 0

\* re.sub(pattern p, repl, s) from token i on
RECURSIVE Sub(_, _, _, _)
Sub(p, repl, s, i) ==
    IF i > Len(s) THEN <<>>
    ELSE LET e == MatchEnd(p, s, i) IN
         IF e > 0 THEN <<repl>> \o Sub(p, repl, s, e + 1)
         ELSE <<s[i]>> \o Sub(p, repl, s, i + 1)

\* _sanitize_text.  The texts of the model hold no URL, card number or social
\* security number, so lines 39-46 leave them as they are.
_sanitize_text(text) ==
    LET t1 == Sub("email", EMAIL, text, 1)
        t2 == Sub("phone", PHONE, t1, 1)
    IN  Sub("paren", PHONE, t2, 1)

\* str.split(): the maximal runs of tokens that are not white space
RECURSIVE Split(_)
Split(s) ==
    IF s = <<>> THEN <<>>
    ELSE IF IsSpace(Head(s)) THEN Split(Tail(s))
    ELSE IF Len(s) > 1 /\ ~IsSpace(s[2])
         THEN LET rest == Split(Tail(s)) IN <<(<<Head(s)>> \o Head(rest))>> \o Tail(rest)
         ELSE <<(<<Head(s)>>)>> \o Split(Tail(s))

\* set(word.lower() for word in s.split() if len(word) > 3)
LongWords(s) ==
    { [i \in 1..Len(r) |-> LowerWord(r[i].w)] :
        r \in { x \in Range(Split(s)) : StrLen(x) > 3 } }

\* ' '.join(texts)
RECURSIVE Join(_)
Join(texts) ==
    IF texts = <<>> THEN <<>>
    ELSE IF Len(texts) = 1 THEN Head(texts)
    ELSE Head(texts) \o <<WS>> \o Join(Tail(texts))

\* Variant: a response with low grounding is refused.
_check_hallucination_blocking(response, docs) ==
    IF docs = <<>> \/ response = <<>> THEN [raised |-> FALSE, log |-> ""]
    ELSE LET response_words == LongWords(response)
             review_words == LongWords(Lower(Join([i \in 1..Len(docs) |-> docs[i].text])))
             overlap_words == response_words \cap review_words
         IN  IF response_words = {} THEN [raised |-> FALSE, log |-> ""]
             ELSE IF 10 * Cardinality(overlap_words) < 3 * Cardinality(response_words)
             THEN [raised |-> TRUE, log |-> "low"]
             ELSE [raised |-> FALSE, log |-> "good"]

\* _check_hallucination: what it prints, and whether it raises.  The overlap
\* ratio is compared with 0.3 and 0.5 in whole numbers.
_check_hallucination(response, docs) ==
    IF docs = <<>> \/ response = <<>> THEN [raised |-> FALSE, log |-> ""]
    ELSE LET response_words == LongWords(response)
             review_words == LongWords(Lower(Join([i \in 1..Len(docs) |-> docs[i].text])))
             overlap_words == response_words \cap review_words
         IN  IF response_words = {} THEN [raised |-> FALSE, log |-> ""]
             ELSE IF 10 * Cardinality(overlap_words) < 3 * Cardinality(response_words)
             THEN [raised |-> FALSE, log |-> "low"]
             ELSE IF 2 * Cardinality(overlap_words) < Cardinality(response_words)
             THEN [raised |-> FALSE, log |-> "moderate"]
             ELSE [raised |-> FALSE, log |-> "good"]

\* _build_context: the product title and, per document, its rating and its
\* sanitized text.
_build_context(metadata, docs) ==
    [title |-> IF metadata = <<>> THEN "Unknown Product" ELSE metadata.title,
     reviews |-> [i \in 1..Len(docs) |->
                     [rating |-> docs[i].metadata.review_rating,
                      text |-> _sanitize_text(docs[i].text)]]]

\* What the completion API does with a request: it raises, or it returns a
\* message whose content is None (null) or a text, which may be empty.
Completion(error, null, content) == [error |-> error, null |-> null, content |-> content]

API_ERROR == Completion(TRUE, FALSE, <<>>)
NULL_CONTENT == Completion(FALSE, TRUE, <<>>)
EMPTY_CONTENT == Completion(FALSE, FALSE, <<>>)
ANSWER == Completion(FALSE, FALSE, <<Kw("The", 3), WS, Kw("battery", 7), WS, Kw("lasts", 5)>>)

\* Variant: the error is counted by the wrapper and again by its caller.
monitor_llm_call_twice(completion, p) ==
    IF completion.error
    THEN [raised |-> TRUE, error |-> "APIError",
          prom |-> Inc(Inc(p, "llm_errors_total"), "llm_errors_total")]
    ELSE IF completion.null
    THEN [raised |-> TRUE, error |-> "TypeError", prom |-> Inc(p, "llm_errors_total")]
    ELSE [raised |-> FALSE, error |-> "", prom |-> Inc(p, "llm_calls_total")]

\* monitor_llm_call: fn() raises, or len(response_text) raises on None, or the
\* call is counted and the response returned.
monitor_llm_call(completion, p) ==
    IF completion.error
    THEN [raised |-> TRUE, error |-> "APIError", prom |-> Inc(p, "llm_errors_total")]
    ELSE IF completion.null
    THEN [raised |-> TRUE, error |-> "TypeError", prom |-> Inc(p, "llm_errors_total")]
    ELSE [raised |-> FALSE, error |-> "", prom |-> Inc(p, "llm_calls_total")]

\* generate_response: the prompt it built, whether it raised and with what,
\* the text it returned, what the grounding check printed, and the counters.
generate_response(completion, metadata, context_documents, p) ==
    LET context == _build_context(metadata, context_documents)
        m == monitor_llm_call(completion, p)
        response_text == IF completion.content = <<>> THEN APOLOGY ELSE completion.content
        check == _check_hallucination(response_text, context_documents)
    IN  IF m.raised
        THEN [raised |-> TRUE, error |-> m.error, response |-> <<>>, prompt |-> context,
              log |-> "", prom |-> m.prom]
        ELSE IF check.raised
        THEN [raised |-> TRUE, error |-> "GroundingError", response |-> <<>>,
              prompt |-> context, log |-> check.log, prom |-> m.prom]
        ELSE [raised |-> FALSE, error |-> "", response |-> response_text,
              prompt |-> context, log |-> check.log, prom |-> m.prom]

\* ---------------------------------------------------------------------------
\* RAGPipeline
\* ---------------------------------------------------------------------------
Modes == {"FULL", "MOCK"}
Backends == {"postgres", "chroma"}
TopKs == 0..MaxTopK
ProductAsins == {"None", "A", "C"}
PipelineQueries == { <<Txt(20)>>, <<WS>>, <<Kw("system:", 7)>> }
PipelineCompletions == { API_ERROR, NULL_CONTENT, EMPTY_CONTENT, ANSWER }

\* RAGPipeline.__init__: a MOCK pipeline has no retriever and an empty cache.
Init ==
    /\ NewGuardrails
    /\ Idle
    /\ SingleThread /\ Standalone /\ NoLlmCall
    /\ mode \in Modes
    /\ IF mode = "MOCK"
       THEN retriever_mode = "none" /\ product_cache = <<>> /\ reviews = <<>>
       ELSE /\ retriever_mode \in Backends
            /\ product_cache \in Caches
            /\ reviews \in (IF retriever_mode = "postgres"
                            THEN Tables ELSE { Ingested(t) : t \in Tables })

Finished == pc \in {"idle", "returned", "raised"}

\* Variant: the gauge is not lowered when a query fails.
FullRaise_held(p) == Inc(p, "rag_errors_total")

\* The except and finally clauses of _query_full.
FullRaise(p) == Dec(Inc(p, "rag_errors_total"), "rag_active_requests")

\* An exception leaves _query_mock as it is: the function has no handler.
MockRaise(p) == p

Raise(p) == IF mode = "MOCK" THEN MockRaise(p) ELSE FullRaise(p)

\* query(): count the query and enter _query_mock or _query_full.
EnterQuery(user_query, top_k, product_asin) ==
    /\ metrics' = Inc(metrics, "total_queries")
    /\ prom' = IF mode = "MOCK"
               THEN Inc(prom, "rag_queries_total")
               ELSE Inc(Inc(prom, "rag_queries_total"), "rag_active_requests")
    /\ at_start' = [metrics |-> metrics, prom |-> prom]
    /\ req' = [user_query |-> user_query, top_k |-> top_k, product_asin |-> product_asin]
    /\ pc' = "validating"
    /\ calls' = <<>>
    /\ documents' = <<>>
    /\ primary_asin' = "None"
    /\ product_metadata' = <<>>
    /\ result' = <<>>

\* One query after the other, by a caller that is not modelled further.
QueryStart(user_query, top_k, product_asin) ==
    /\ Finished
    /\ metrics.total_queries < MaxQueries
    /\ EnterQuery(user_query, top_k, product_asin)
    /\ UNCHANGED <<gvars, xvars, cvars>>

MOCK_REVIEW_1 ==
    << Kw("This", 4), WS, Kw("is", 2), WS, Kw("a", 1), WS, Kw("mock", 4), WS,
       Kw("review", 6), WS, Kw("describing", 10), WS, Kw("product", 7), WS,
       Kw("quality", 7), WS, Kw("and", 3), WS, Kw("durability.", 11) >>

MOCK_REVIEW_2 ==
    << Kw("Customers", 9), WS, Kw("appreciated", 11), WS, Kw("the", 3), WS,
       Kw("battery", 7), WS, Kw("life", 4), WS, Kw("and", 3), WS, Kw("price", 5), WS,
       Kw("point.", 6) >>

\* Variant: one hardcoded review only.
MockDocuments_single(product_asin) ==
    LET a == IF Truthy(product_asin) THEN product_asin ELSE "MOCK-ASIN" IN
    << [text |-> MOCK_REVIEW_1, text_chars |-> StrLen(MOCK_REVIEW_1), distance |-> 10,
        metadata |-> [asin |-> a, review_rating |-> 5]] >>

MockDocuments(product_asin) ==
    LET a == IF Truthy(product_asin) THEN product_asin ELSE "MOCK-ASIN" IN
    << [text |-> MOCK_REVIEW_1, text_chars |-> StrLen(MOCK_REVIEW_1), distance |-> 10,
        metadata |-> [asin |-> a, review_rating |-> 5]],
       [text |-> MOCK_REVIEW_2, text_chars |-> StrLen(MOCK_REVIEW_2), distance |-> 20,
        metadata |-> [asin |-> a, review_rating |-> 4]] >>

MockMetadata ==
    [title |-> "Mock Product - Version A", main_category |-> "Cell Phones & Accessories",
     average_rating |-> "4.5", rating_number |-> 100, price |-> "19.99",
     features |-> <<"Lightweight", "Durable", "Budget-friendly">>,
     description |-> "This is a mock product used for monitoring demo."]

\* Python's list[:k] for k >= 0
Slice(s, k) == SubSeq(s, 1, IF k < Len(s) THEN k ELSE Len(s))

\* Variant: the second browser session has a window of its own.
PipelineUser_session ==
    IF app # <<>> /\ app.session = "s2" THEN "u1" ELSE DEFAULT_USER

\* validate_query(user_query): the pipeline names no user, so user_id takes its
\* default.
PipelineUser == DEFAULT_USER

\* Variant: a rejected query goes on to the next stage.
AfterValidate_unchecked(is_valid) ==
    IF mode = "MOCK" THEN "generating" ELSE "embedding"

\* if not is_valid: raise ValueError(...)
AfterValidate(is_valid) ==
    IF ~is_valid THEN "raised"
    ELSE IF mode = "MOCK" THEN "generating" ELSE "embedding"

\* Step 0 of _query_full, and the guardrail call of _query_mock.
StepValidate ==
    /\ pc = "validating"
    /\ Validate(PipelineUser, req.user_query)
    /\ calls' = Append(calls, "validate")
    /\ LET r == validate_query(rate_limit_store, req.user_query, PipelineUser, now) IN
       IF ~r[1]
       THEN /\ pc' = AfterValidate(r[1])
            /\ result' = [error |-> "ValueError", message |-> <<"Invalid query: ", r[2]>>]
            /\ IF mode = "MOCK"
               THEN /\ metrics' = Inc(metrics, "guardrail_failures")
                    /\ prom' = Raise(prom)
               ELSE /\ metrics' = metrics
                    /\ prom' = Raise(Inc(prom, "rag_guardrail_failures"))
            /\ UNCHANGED <<documents, product_metadata>>
       ELSE /\ result' = result
            /\ UNCHANGED <<metrics, prom>>
            /\ pc' = AfterValidate(r[1])
            /\ IF mode = "MOCK"
               THEN /\ documents' = Slice(MockDocuments(req.product_asin), req.top_k)
                    /\ product_metadata' = MockMetadata
               ELSE UNCHANGED <<documents, product_metadata>>
    /\ UNCHANGED <<xvars, cvars, req, primary_asin, at_start>>

\* Variant: a stage that raised is run again.
AfterStage_retry(ok, stage, next) == IF ok THEN next ELSE stage

\* Where the query goes after a stage: on, or out through the except clause,
\* which re-raises.
AfterStage(ok, stage, next) == IF ok THEN next ELSE "raised"

\* Step 1: embedder.embed_text returns a vector or raises.
StepEmbed(ok) ==
    /\ pc = "embedding"
    /\ calls' = Append(calls, "embed")
    /\ IF ok
       THEN pc' = AfterStage(ok, "embedding", "retrieving") /\ UNCHANGED <<result, prom>>
       ELSE /\ pc' = AfterStage(ok, "embedding", "retrieving")
            /\ result' = [error |-> "EmbeddingError", message |-> <<>>]
            /\ prom' = Raise(prom)
    /\ UNCHANGED <<gvars, xvars, cvars, req, documents, primary_asin, product_metadata,
                   metrics, at_start>>

\* Step 2: retriever.retrieve returns a document list or raises.  ChromaDB
\* refuses n_results = 0.
StepRetrieve(ok) ==
    /\ pc = "retrieving"
    /\ calls' = Append(calls, "retrieve")
    /\ IF ok /\ ~(retriever_mode = "chroma" /\ req.top_k = 0)
       THEN /\ documents' \in Retrieve(retriever_mode, reviews, req.top_k, req.product_asin)
            /\ pc' = AfterStage(TRUE, "retrieving", "resolving")
            /\ UNCHANGED <<result, prom>>
       ELSE /\ pc' = AfterStage(FALSE, "retrieving", "resolving")
            /\ result' = [error |-> "RetrievalError", message |-> <<>>]
            /\ prom' = Raise(prom)
            /\ UNCHANGED documents
    /\ UNCHANGED <<gvars, xvars, cvars, req, primary_asin, product_metadata, metrics, at_start>>

\* Variant: the ASIN is taken from the documents also when one was supplied.
PrimaryAsinChoices_documents(product_asin, docs) ==
    LET asins == { docs[i].metadata.asin : i \in 1..Len(docs) } IN
    IF asins = {} THEN {"None"} ELSE asins

\* next(iter(asins), None) over a set of strings: whichever element the hash
\* order puts first.
PrimaryAsinChoices(product_asin, docs) ==
    IF Truthy(product_asin)
    THEN {product_asin}
    ELSE LET asins == { docs[i].metadata.asin : i \in 1..Len(docs) } IN
         IF asins = {} THEN {"None"} ELSE asins

\* Variant: the fallback reads the last document.
ResolveMetadata_last(cache, primary, docs) ==
    IF Truthy(primary) /\ primary \in DOMAIN cache
    THEN cache[primary]
    ELSE IF docs # <<>>
         THEN LET m == docs[Len(docs)].metadata IN
              [title |-> m.product_name, main_category |-> m.category,
               average_rating |-> m.product_avg_rating, rating_number |-> 0,
               price |-> "N/A", features |-> <<>>, description |-> ""]
         ELSE EmptyMetadata

ResolveMetadata(cache, primary, docs) ==
    IF Truthy(primary) /\ primary \in DOMAIN cache
    THEN cache[primary]
    ELSE IF docs # <<>>
         THEN LET m == docs[1].metadata IN
              [title |-> m.product_name, main_category |-> m.category,
               average_rating |-> m.product_avg_rating, rating_number |-> 0,
               price |-> "N/A", features |-> <<>>, description |-> ""]
         ELSE EmptyMetadata

\* Step 3: product metadata
StepResolve ==
    /\ pc = "resolving"
    /\ primary_asin' \in PrimaryAsinChoices(req.product_asin, documents)
    /\ product_metadata' = ResolveMetadata(product_cache, primary_asin', documents)
    /\ pc' = "generating"
    /\ UNCHANGED <<gvars, xvars, cvars, req, calls, documents, result, mvars>>

\* Variant: the count is the number of documents asked for.
QueryResult_asked(r, response, metadata, docs) ==
    [query |-> r.user_query, response |-> response, product_metadata |-> metadata,
     retrieved_documents |-> docs, num_documents_used |-> r.top_k]

\* The dictionary that _query_full and _query_mock return.
QueryResult(r, response, metadata, docs) ==
    [query |-> r.user_query, response |-> response, product_metadata |-> metadata,
     retrieved_documents |-> docs, num_documents_used |-> Len(docs)]

\* Step 4 of _query_full and the generation of _query_mock.
StepGenerate(completion) ==
    /\ pc = "generating"
    /\ calls' = Append(calls, "llm")
    /\ LET p1 == IF mode = "MOCK" THEN prom ELSE Inc(prom, "rag_llm_calls_total")
           g == generate_response(completion, product_metadata, documents, p1)
       IN  IF g.raised
           THEN /\ pc' = AfterStage(FALSE, "generating", "returned")
                /\ result' = [error |-> g.error, message |-> <<>>]
                /\ prom' = Raise(g.prom)
           ELSE /\ pc' = AfterStage(TRUE, "generating", "returned")
                /\ result' = QueryResult(req, g.response, product_metadata, documents)
                /\ prom' = IF mode = "MOCK" THEN g.prom ELSE Dec(g.prom, "rag_active_requests")
    /\ UNCHANGED <<gvars, xvars, cvars, req, documents, primary_asin, product_metadata,
                   metrics, at_start>>

Start == \E q \in PipelineQueries, k \in TopKs, a \in ProductAsins : QueryStart(q, k, a)
Embed == \E ok \in BOOLEAN : StepEmbed(ok)
DoRetrieve == \E ok \in BOOLEAN : StepRetrieve(ok)
Generate == \E c \in PipelineCompletions : StepGenerate(c)
\* Time is read in validate_query only, so the clock is looked at between queries.
Clock == \E d \in Steps : Finished /\ Tick(d)

Next == Start \/ StepValidate \/ Embed \/ DoRetrieve \/ StepResolve \/ Generate \/ Clock

Spec == Init /\ [][Next]_vars

\* ---------------------------------------------------------------------------
\* validate_query as a function of the query, the user and the state of the
\* rate-limit store
\* ---------------------------------------------------------------------------
RECURSIVE Repeat(_, _)
Repeat(x, k) == IF k = 0 THEN <<>> ELSE Append(Repeat(x, k - 1), x)

\* The store after k requests of one user, all made at time t, have passed
\* _check_rate_limit: each was appended to the user's list and written back.
AfterRequests(user_id, t, k) ==
    IF k = 0 THEN <<>> ELSE [u \in {user_id} |-> Repeat(t, k)]

EarlierRequests == {0, MAX_REQUESTS - 1, MAX_REQUESTS}

ValidateInit ==
    /\ mode = "FULL" /\ retriever_mode = "postgres"
    /\ product_cache = <<>> /\ reviews = <<>>
    /\ Idle
    /\ SingleThread /\ Standalone /\ NoLlmCall
    /\ now = 0
    /\ blocked = [u \in Users |-> 0]
    /\ last = NoCall
    /\ \E u \in Users, k \in EarlierRequests :
          /\ rate_limit_store = AfterRequests(u, 0, k)
          /\ recent = [v \in Users |-> IF v = u THEN Repeat(0, k) ELSE <<>>]

ValidateOnce == \E u \in Users, q \in Queries : last = NoCall /\ ValidateCall(u, q)
ValidateWait == \E d \in Steps : last = NoCall /\ Tick(d)

ValidateNext == ValidateOnce \/ ValidateWait

SpecValidate == ValidateInit /\ [][ValidateNext]_vars

\* ---------------------------------------------------------------------------
\* validate_query called by several threads on the one InputGuardrails object
\* (each Gradio request runs chat_function in a worker thread).  The calls are
\* of the default user with a query that passes the content checks, so each
\* reaches _check_rate_limit, which takes no lock.
\* ---------------------------------------------------------------------------
Threads == {"t1", "t2"}
SeededRequests == {0, MAX_REQUESTS - 1}
MaxThreadCalls == 2

NoThread == [pc |-> "idle", now |-> 0, user_requests |-> <<>>, calls |-> 0]

\* The thread has left validate_query.
Returned(thread) == [thread EXCEPT !.pc = "idle", !.user_requests = <<>>]

AllIdle == \A t \in Threads : threads[t].pc = "idle"

ThreadsInit ==
    /\ mode = "FULL" /\ retriever_mode = "postgres"
    /\ product_cache = <<>> /\ reviews = <<>>
    /\ Idle
    /\ Standalone /\ NoLlmCall
    /\ threads = [t \in Threads |-> NoThread]
    /\ now = 0
    /\ blocked = [u \in Users |-> 0]
    /\ last = NoCall
    /\ \E k \in SeededRequests :
          /\ rate_limit_store = AfterRequests(DEFAULT_USER, 0, k)
          /\ recent = [v \in Users |-> IF v = DEFAULT_USER THEN Repeat(0, k) ELSE <<>>]

\* Lines 86-96: read the clock, create the user's list if missing, read the
\* list and build the pruned copy.
ThreadEnter(t) ==
    /\ threads[t].pc = "idle"
    /\ threads[t].calls < MaxThreadCalls
    /\ rate_limit_store' = [u \in DOMAIN rate_limit_store \cup {DEFAULT_USER} |->
                               StoredRequests(rate_limit_store, u)]
    /\ threads' = [threads EXCEPT ![t] =
                      [pc |-> "pruned", now |-> now, calls |-> @.calls + 1,
                       user_requests |-> Prune(StoredRequests(rate_limit_store, DEFAULT_USER), now)]]
    /\ UNCHANGED <<now, recent, blocked, last, app, llm, cvars, qvars, mvars>>

\* Lines 98-104: test the limit on the copy; return True, or append to the copy.
ThreadTest(t) ==
    /\ threads[t].pc = "pruned"
    /\ threads' = [threads EXCEPT ![t] =
                      IF LimitExceeded(@.user_requests)
                      THEN Returned(@)
                      ELSE [@ EXCEPT !.pc = "appended",
                                     !.user_requests = Append(@, threads[t].now)]]
    /\ UNCHANGED <<gvars, app, llm, cvars, qvars, mvars>>

\* Lines 105-107: write the copy back and return False: the call is accepted.
ThreadWrite(t) ==
    /\ threads[t].pc = "appended"
    /\ rate_limit_store' = [rate_limit_store EXCEPT ![DEFAULT_USER] = threads[t].user_requests]
    /\ recent' = [recent EXCEPT ![DEFAULT_USER] = Append(@, threads[t].now)]
    /\ threads' = [threads EXCEPT ![t] = Returned(@)]
    /\ UNCHANGED <<now, blocked, last, app, llm, cvars, qvars, mvars>>

Enter == \E t \in Threads : ThreadEnter(t)
Test == \E t \in Threads : ThreadTest(t)
Write == \E t \in Threads : ThreadWrite(t)
ThreadsTick == \E d \in Steps : AllIdle /\ now + d <= MaxTime /\ now' = now + d
                  /\ recent' = [u \in Users |->
                        SelectSeq(recent[u], LAMBDA ts : ts > now + d - WINDOW_SECONDS)]
                  /\ UNCHANGED <<rate_limit_store, blocked, last, xvars, cvars, qvars, mvars>>

ThreadsNext == Enter \/ Test \/ Write \/ ThreadsTick

SpecThreads == ThreadsInit /\ [][ThreadsNext]_vars

\* ---------------------------------------------------------------------------
\* generate_response as a function of the completion and the documents
\* ---------------------------------------------------------------------------
Doc(text) ==
    [text |-> text, text_chars |-> StrLen(text), distance |-> 10,
     metadata |-> [asin |-> "A", review_rating |-> 5]]

PLAIN_REVIEW == << Kw("battery", 7), WS, Kw("lasts", 5), WS, Kw("long", 4) >>

\* "contact me at a@b.com or 555-123-4567", "call (555) 123-4567",
\* "(555) 123-4567", "call(555) 123-4567", "call (555)123-4567",
\* "mail a@b.com." and "555-123-4567 or a@b.com or 555-123-4567"
ReviewTexts ==
    { PLAIN_REVIEW,
      << Kw("contact", 7), WS, Kw("me", 2), WS, Kw("at", 2), WS, Kw("a@b.com", 7), WS,
         Kw("or", 2), WS, Kw("555-123-4567", 12) >>,
      << Kw("call", 4), WS, Kw("(555)", 5), WS, Kw("123-4567", 8) >>,
      << Kw("(555)", 5), WS, Kw("123-4567", 8) >>,
      << Kw("call", 4), Kw("(555)", 5), WS, Kw("123-4567", 8) >>,
      << Kw("call", 4), WS, Kw("(555)", 5), Kw("123-4567", 8) >>,
      << Kw("mail", 4), WS, Kw("a@b.com", 7), Kw(".", 1) >>,
      << Kw("555-123-4567", 12), WS, Kw("or", 2), WS, Kw("a@b.com", 7), WS, Kw("or", 2), WS,
         Kw("555-123-4567", 12) >> }

DocumentLists ==
    {<<>>} \cup { <<Doc(t)>> : t \in ReviewTexts }
           \cup { <<Doc(PLAIN_REVIEW), Doc(t)>> : t \in ReviewTexts }

\* "Battery great", "camera takes sharp photos", "ok", "battery camera screen"
\* and "battery camera screen charger"
Answers ==
    { ANSWER.content,
      << Kw("Battery", 7), WS, Kw("great", 5) >>,
      << Kw("camera", 6), WS, Kw("takes", 5), WS, Kw("sharp", 5), WS, Kw("photos", 6) >>,
      << Kw("ok", 2) >>,
      << Kw("battery", 7), WS, Kw("camera", 6), WS, Kw("screen", 6) >>,
      << Kw("battery", 7), WS, Kw("camera", 6), WS, Kw("screen", 6), WS, Kw("charger", 7) >> }

Completions ==
    { API_ERROR, NULL_CONTENT, EMPTY_CONTENT } \cup { Completion(FALSE, FALSE, t) : t \in Answers }

LlmInit ==
    /\ mode = "FULL" /\ retriever_mode = "postgres"
    /\ product_cache = <<>> /\ reviews = <<>>
    /\ Idle
    /\ NewGuardrails
    /\ SingleThread /\ Standalone
    /\ \E c \in Completions, d \in DocumentLists :
          llm = [pc |-> "called", completion |-> c, documents |-> d,
                 product_metadata |-> CacheEntry("A"),
                 raised |-> FALSE, error |-> "", response |-> <<>>, prompt |-> <<>>,
                 log |-> ""]

\* One call of generate_response(query, product_metadata, context_documents).
GenerateResponse ==
    /\ llm.pc = "called"
    /\ LET g == generate_response(llm.completion, llm.product_metadata, llm.documents, prom)
       IN  /\ llm' = [llm EXCEPT !.pc = IF g.raised THEN "raised" ELSE "returned",
                                 !.raised = g.raised, !.error = g.error,
                                 !.response = g.response, !.prompt = g.prompt,
                                 !.log = g.log]
           /\ prom' = g.prom
    /\ UNCHANGED <<gvars, cvars, qvars, metrics, at_start, threads, app>>

LlmNext == GenerateResponse

SpecLlm == LlmInit /\ [][LlmNext]_vars

\* ---------------------------------------------------------------------------
\* The API process (api/main.py): startup_event builds the pipeline, and
\* POST /api/query runs a query on it
\* ---------------------------------------------------------------------------
MaxFailed == 2

\* RAGPipeline(): LLMClient() raises without an API key, and _init_full_mode
\* raises on a RETRIEVER_MODE that is neither "postgres" nor "chroma".  A
\* missing product_cache.json only prints a warning.
PipelineBuilds(api_key, m, backend) ==
    api_key /\ (m = "MOCK" \/ backend \in Backends)

\* self.product_cache after __init__
LoadedCache(m, cache_file) ==
    IF m = "FULL" /\ cache_file THEN [a \in {"A"} |-> CacheEntry(a)] ELSE <<>>

\* The configuration errors the start can meet.
ConfigurationError(api_key, m, backend, cache_file) ==
    \/ ~api_key
    \/ m = "FULL" /\ ~cache_file
    \/ m = "FULL" /\ backend \notin Backends

StartupInit ==
    /\ NewGuardrails
    /\ Idle
    /\ SingleThread /\ NoLlmCall
    /\ mode \in Modes
    /\ retriever_mode \in (IF mode = "MOCK" THEN {"none"} ELSE Backends \cup {"sqlite"})
    /\ product_cache = <<>>
    /\ reviews = (IF retriever_mode = "postgres" THEN Reviews
                  ELSE IF retriever_mode = "chroma" THEN Ingested(Reviews) ELSE <<>>)
    /\ \E key \in BOOLEAN, file \in BOOLEAN :
          app = [state |-> "starting", api_key |-> key, cache_file |-> file,
                 rag_pipeline |-> FALSE, startup_error |-> FALSE, failed |-> 0]

\* startup_event: get_pipeline() inside try / except Exception; the handler
\* returns in either case and the server starts to serve.
StartupEvent ==
    /\ app.state = "starting"
    /\ app' = [app EXCEPT
                 !.state = "serving",
                 !.rag_pipeline = PipelineBuilds(app.api_key, mode, retriever_mode),
                 !.startup_error = ConfigurationError(app.api_key, mode, retriever_mode,
                                                      app.cache_file)]
    /\ product_cache' = IF PipelineBuilds(app.api_key, mode, retriever_mode)
                        THEN LoadedCache(mode, app.cache_file) ELSE product_cache
    /\ UNCHANGED <<gvars, mode, retriever_mode, reviews, qvars, mvars, threads, llm>>

\* POST /api/query while there is no pipeline: get_pipeline() tries to build
\* it again, raises again, and the request is answered with status 500.
ApiQueryFails ==
    /\ app.state = "serving"
    /\ ~app.rag_pipeline
    /\ ~PipelineBuilds(app.api_key, mode, retriever_mode)
    /\ app.failed < MaxFailed
    /\ app' = [app EXCEPT !.failed = @ + 1]
    /\ UNCHANGED <<gvars, cvars, qvars, mvars, threads, llm>>

ApiQueries == { <<Txt(20)>>, <<WS>> }
ApiTopKs == {2}
ApiAsins == {"None", "A"}

\* POST /api/query: pipeline.query(request.query, top_k, product_asin)
ApiQuery ==
    /\ app.state = "serving"
    /\ app.rag_pipeline
    /\ \E q \in ApiQueries, k \in ApiTopKs, a \in ApiAsins : QueryStart(q, k, a)

StartupNext ==
    \/ StartupEvent
    \/ ApiQueryFails
    \/ ApiQuery
    \/ StepValidate \/ Embed \/ DoRetrieve \/ StepResolve \/ Generate

SpecStartup == StartupInit /\ [][StartupNext]_vars

\* ---------------------------------------------------------------------------
\* _query_full run by several worker threads at once on the one pipeline.  Each
\* worker is at the stage its query has reached; the Prometheus counters and the
\* gauge are shared and every inc() and dec() is one locked update.
\* ---------------------------------------------------------------------------
Workers == {"w1", "w2", "w3"}
MaxWorkerQueries == 2

WorkerQueries == { <<Txt(20)>>, <<WS>> }
WorkerCompletions == { API_ERROR, ANSWER }
WORKER_TOP_K == 1

NoQuery == [pc |-> "idle", queries |-> 0, documents |-> <<>>]

InFlight == { w \in Workers : threads[w].pc # "idle" }

InflightInit ==
    /\ mode = "FULL" /\ retriever_mode = "postgres"
    /\ product_cache = [a \in {"A"} |-> CacheEntry(a)] /\ reviews = Reviews
    /\ Idle
    /\ NewGuardrails
    /\ Standalone /\ NoLlmCall
    /\ threads = [w \in Workers |-> NoQuery]

\* query() and the first lines of _query_full: count the query, raise the gauge.
WorkerStart(w) ==
    /\ threads[w].pc = "idle"
    /\ threads[w].queries < MaxWorkerQueries
    /\ metrics' = Inc(metrics, "total_queries")
    /\ prom' = Inc(Inc(prom, "rag_queries_total"), "rag_active_requests")
    /\ threads' = [threads EXCEPT ![w] = [pc |-> "validating", queries |-> @.queries + 1,
                                          documents |-> <<>>]]
    /\ UNCHANGED <<gvars, app, llm, cvars, qvars, at_start>>

\* Step 0; a rejected query leaves through except and finally.
WorkerValidate(w, user_query) ==
    /\ threads[w].pc = "validating"
    /\ Validate(PipelineUser, user_query)
    /\ LET r == validate_query(rate_limit_store, user_query, PipelineUser, now) IN
       IF r[1]
       THEN /\ threads' = [threads EXCEPT ![w].pc = "embedding"]
            /\ prom' = prom
       ELSE /\ threads' = [threads EXCEPT ![w].pc = "idle"]
            /\ prom' = FullRaise(Inc(prom, "rag_guardrail_failures"))
    /\ UNCHANGED <<metrics, app, llm, cvars, qvars, at_start>>

\* Step 1
WorkerEmbed(w, ok) ==
    /\ threads[w].pc = "embedding"
    /\ IF ok
       THEN threads' = [threads EXCEPT ![w].pc = "retrieving"] /\ prom' = prom
       ELSE threads' = [threads EXCEPT ![w].pc = "idle"] /\ prom' = FullRaise(prom)
    /\ UNCHANGED <<gvars, metrics, app, llm, cvars, qvars, at_start>>

\* Step 2
WorkerRetrieve(w, ok) ==
    /\ threads[w].pc = "retrieving"
    /\ IF ok
       THEN /\ \E docs \in Retrieve(retriever_mode, reviews, WORKER_TOP_K, "None") :
                 threads' = [threads EXCEPT ![w].pc = "generating", ![w].documents = docs]
            /\ prom' = prom
       ELSE threads' = [threads EXCEPT ![w].pc = "idle"] /\ prom' = FullRaise(prom)
    /\ UNCHANGED <<gvars, metrics, app, llm, cvars, qvars, at_start>>

\* Steps 3 and 4, then the return through finally.
WorkerGenerate(w, completion) ==
    /\ threads[w].pc = "generating"
    /\ \E primary \in PrimaryAsinChoices("None", threads[w].documents) :
          LET metadata == ResolveMetadata(product_cache, primary, threads[w].documents)
              g == generate_response(completion, metadata, threads[w].documents,
                                     Inc(prom, "rag_llm_calls_total"))
          IN  prom' = IF g.raised THEN FullRaise(g.prom)
                      ELSE Dec(g.prom, "rag_active_requests")
    /\ threads' = [threads EXCEPT ![w].pc = "idle", ![w].documents = <<>>]
    /\ UNCHANGED <<gvars, metrics, app, llm, cvars, qvars, at_start>>

QueryBegins == \E w \in Workers : WorkerStart(w)
QueryValidates == \E w \in Workers, q \in WorkerQueries : WorkerValidate(w, q)
QueryEmbeds == \E w \in Workers, ok \in BOOLEAN : WorkerEmbed(w, ok)
QueryRetrieves == \E w \in Workers, ok \in BOOLEAN : WorkerRetrieve(w, ok)
QueryGenerates == \E w \in Workers, c \in WorkerCompletions : WorkerGenerate(w, c)

InflightNext ==
    QueryBegins \/ QueryValidates \/ QueryEmbeds \/ QueryRetrieves \/ QueryGenerates

SpecInflight == InflightInit /\ [][InflightNext]_vars

\* ---------------------------------------------------------------------------
\* The chat UI: chat_function called for the messages of several browser
\* sessions, one after the other, on the pipeline of the UI process.  The
\* process has answered some queries before the first message looked at.
\* ---------------------------------------------------------------------------
Sessions == {"s1", "s2"}
MaxSubmits == 2
ChatSeeds == {0, MAX_REQUESTS - 1}

ChatMessages == GuardQueries
ChatProducts == {"", "A"}
CHAT_TOP_K == 2

UI_TOO_LONG == "Sorry, your query is too long. Please keep it under 500 characters."
UI_TOO_SHORT == "Sorry, your query is too short. Please provide at least 3 characters."
UI_EMPTY == "Please enter a question to continue."
UI_RATE_LIMIT == "Too many requests. Please wait a moment before trying again."
UI_REPHRASE == "Unable to process your query. Please try rephrasing."
UI_ERROR == "An error occurred while processing your request. Please try again."

\* extract_asin_from_choice: None for an empty choice
extract_asin_from_choice(choice) == IF choice = "" THEN "None" ELSE choice

\* str.lower() of the guardrail's messages, word by word
LowerWords(error_str) ==
    CASE error_str = "Query cannot be empty" -> <<"query", "cannot", "be", "empty">>
      [] error_str = "Query too short (minimum 3 characters)" ->
            <<"query", "too", "short", "(minimum", "3", "characters)">>
      [] error_str = "Query too long (maximum 500 characters)" ->
            <<"query", "too", "long", "(maximum", "500", "characters)">>
      [] error_str = "Invalid query detected" -> <<"invalid", "query", "detected">>
      [] error_str = "Too many requests. Maximum 20 per 1 minute(s)" ->
            <<"too", "many", "requests.", "maximum", "20", "per", "1", "minute(s)">>
      [] OTHER -> <<>>

\* phrase in text, for a phrase of whole words
Contains(text, phrase) ==
    \E i \in 1..(Len(text) - Len(phrase) + 1) :
        SubSeq(text, i, i + Len(phrase) - 1) = phrase

\* The except ValueError branch of chat_function
GuardrailMessage(error_str) ==
    LET lower == LowerWords(error_str) IN
    IF Contains(lower, <<"too", "long">>) THEN UI_TOO_LONG
    ELSE IF Contains(lower, <<"too", "short">>) THEN UI_TOO_SHORT
    ELSE IF Contains(lower, <<"empty">>) THEN UI_EMPTY
    ELSE IF Contains(lower, <<"rate", "limit">>) THEN UI_RATE_LIMIT
    ELSE UI_REPHRASE

NoReply == [kind |-> "none", content |-> <<>>]

ChatInit ==
    /\ mode \in Modes
    /\ IF mode = "MOCK"
       THEN retriever_mode = "none" /\ product_cache = <<>> /\ reviews = <<>>
       ELSE /\ retriever_mode = "postgres"
            /\ product_cache = [a \in {"A"} |-> CacheEntry(a)]
            /\ reviews = Reviews
    /\ pc = "idle" /\ req = <<>> /\ calls = <<>> /\ documents = <<>>
    /\ primary_asin = "None" /\ product_metadata = <<>> /\ result = <<>>
    /\ at_start = <<>>
    /\ SingleThread /\ NoLlmCall
    /\ now = 0
    /\ blocked = [u \in Users |-> 0]
    /\ last = NoCall
    /\ app = [session |-> "none", sessions |-> {}, pending |-> FALSE,
              reply |-> NoReply, submits |-> 0]
    /\ \E k \in ChatSeeds :
          /\ rate_limit_store = AfterRequests(DEFAULT_USER, 0, k)
          /\ recent = [v \in Users |-> IF v = DEFAULT_USER THEN Repeat(0, k) ELSE <<>>]
          /\ metrics = [total_queries |-> k, guardrail_failures |-> 0]
          /\ prom = [rag_queries_total |-> k,
                     rag_llm_calls_total |-> IF mode = "MOCK" THEN 0 ELSE k,
                     rag_errors_total |-> 0, rag_guardrail_failures |-> 0,
                     rag_active_requests |-> 0,
                     llm_calls_total |-> k, llm_errors_total |-> 0]

\* chat_function up to the call of rag_pipeline.query: a blank message returns
\* the history as it is.
ChatSubmit(session, message, selected_product, top_k) ==
    /\ Finished
    /\ ~app.pending
    /\ app.submits < MaxSubmits
    /\ IF Strip(message) = <<>>
       THEN /\ app' = [app EXCEPT !.session = session, !.sessions = @ \cup {session},
                                  !.reply = NoReply, !.submits = @ + 1]
            /\ UNCHANGED <<qvars, mvars>>
       ELSE /\ app' = [app EXCEPT !.session = session, !.sessions = @ \cup {session},
                                  !.reply = NoReply, !.submits = @ + 1,
                                  !.pending = TRUE]
            /\ EnterQuery(message, top_k, extract_asin_from_choice(selected_product))
    /\ UNCHANGED <<gvars, threads, llm, cvars>>

\* chat_function after rag_pipeline.query: the answer, or the message of the
\* except clause that catches the exception.
ChatReturn ==
    /\ app.pending
    /\ pc \in {"returned", "raised"}
    /\ app' = [app EXCEPT
                 !.pending = FALSE,
                 !.reply =
                    IF pc = "returned"
                    THEN [kind |-> "answer",
                          content |-> <<result.response, result.num_documents_used>>]
                    ELSE IF result.error = "ValueError"
                    THEN [kind |-> "error", content |-> <<GuardrailMessage(result.message[2])>>]
                    ELSE [kind |-> "error", content |-> <<UI_ERROR>>]]
    /\ UNCHANGED <<gvars, threads, llm, cvars, qvars, mvars>>

Submit ==
    \E s \in Sessions, m \in ChatMessages, p \in ChatProducts : ChatSubmit(s, m, p, CHAT_TOP_K)
ChatClock == ~app.pending /\ Clock

ChatNext ==
    \/ Submit
    \/ StepValidate \/ Embed \/ DoRetrieve \/ StepResolve \/ Generate
    \/ ChatReturn
    \/ ChatClock

SpecChat == ChatInit /\ [][ChatNext]_vars

\* ---------------------------------------------------------------------------
\* The mode flag: RAG_MODE as the environment gives it, the mode the pipeline
\* derives from it, and get_pipeline_status next to query.
\* ---------------------------------------------------------------------------
UNSET == "(unset)"
ModeFlags == { UNSET, "FULL", "full", "MOCK", " mock ", "PROD", "" }

\* os.getenv("RAG_MODE", "FULL").upper().strip() for the flags above
ModeOf(flag) ==
    CASE flag = UNSET -> "FULL"
      [] flag = "full" -> "FULL"
      [] flag = " mock " -> "MOCK"
      [] OTHER -> flag

EMBEDDING_DIMENSION == 384

StatusQueries == { <<Txt(20)>>, <<WS>> }
STATUS_TOP_K == 2

NoStatus == <<>>

\* get_pipeline_status(): the figures of the services for the mode FULL, the
\* placeholders otherwise.
get_pipeline_status ==
    IF mode = "FULL"
    THEN [status |-> "ready", mode |-> mode,
          num_products |-> Cardinality(DOMAIN product_cache),
          embedding_dimension |-> EMBEDDING_DIMENSION,
          vector_db |-> [count |-> Len(reviews)]]
    ELSE [status |-> "ready", mode |-> mode,
          num_products |-> 0,
          embedding_dimension |-> 0,
          vector_db |-> [count |-> 0]]

StatusInit ==
    /\ NewGuardrails
    /\ Idle
    /\ SingleThread /\ NoLlmCall
    /\ \E flag \in ModeFlags :
          /\ mode = ModeOf(flag)
          /\ app = [flag |-> flag, status |-> NoStatus]
    /\ IF mode = "MOCK"
       THEN retriever_mode = "none" /\ product_cache = <<>> /\ reviews = <<>>
       ELSE /\ retriever_mode \in Backends
            /\ product_cache = [a \in {"A", "B"} |-> CacheEntry(a)]
            /\ reviews = Ingested(Reviews)

\* GET /api/status
GetPipelineStatus ==
    /\ Finished
    /\ app' = [app EXCEPT !.status = get_pipeline_status]
    /\ UNCHANGED <<gvars, cvars, qvars, mvars, threads, llm>>

StatusQuery == \E q \in StatusQueries : QueryStart(q, STATUS_TOP_K, "None")

StatusNext ==
    \/ GetPipelineStatus
    \/ StatusQuery
    \/ StepValidate \/ Embed \/ DoRetrieve \/ StepResolve \/ Generate

SpecStatus == StatusInit /\ [][StatusNext]_vars

\* ---------------------------------------------------------------------------
\* ingest_reviews of the two ingestion scripts (retriever_mode tells which):
\* the dataset is filtered to the cached products, then every review left is
\* looked at in turn, and the batch is stored at the end.
\* ---------------------------------------------------------------------------
MaxReviews == 2

MAX_REVIEWS_PER_PRODUCT == 5
BATCH_SIZE == 512
MIN_TEXT_CHARS == 20

\* A review of the dataset.  "" stands for a field that is missing, None or
\* empty; rating 0 for one that is missing or 0.
RawReview(parent_asin, asin, text, rating) ==
    [parent_asin |-> parent_asin, asin |-> asin, text |-> text, rating |-> rating]

\* "X" is a product that is not in the cache.
RawReviews ==
    { RawReview(p, a, t[1], t[2]) :
        p \in {"", "A", "X"}, a \in {"", "A", "X"},
        t \in { <<<<Txt(60)>>, 5>>, <<<<Txt(10)>>, 5>>, <<<<Txt(60)>>, 0>> } }

Datasets == UNION { [1..n -> RawReviews] : n \in 0..MaxReviews }

\* The lambda of reviews_dataset.filter
PassesProductFilter(x, valid_asins) ==
    x.parent_asin \in valid_asins \/ x.asin \in valid_asins

\* review.get('parent_asin') or review.get('asin')
ReviewAsin(review) ==
    IF review.parent_asin # "" THEN review.parent_asin ELSE review.asin

should_include_review(review) ==
    /\ review.text # <<>>
    /\ StrLen(Strip(review.text)) >= MIN_TEXT_CHARS
    /\ review.rating # 0

IngestInit ==
    /\ mode = "FULL" /\ retriever_mode \in Backends
    /\ product_cache = [a \in {"A"} |-> CacheEntry(a)]
    /\ reviews = <<>>
    /\ Idle
    /\ NewGuardrails
    /\ SingleThread /\ NoLlmCall
    /\ \E d \in Datasets :
          app = [pc |-> "filtering", reviews_dataset |-> d, done |-> 0,
                 asin |-> "", error |-> "", batch |-> <<>>, stored |-> <<>>,
                 reviews_processed |-> 0, reviews_skipped |-> 0,
                 product_review_counts |-> <<>>]

\* reviews_dataset = reviews_dataset.filter(...)
IngestFilter ==
    /\ app.pc = "filtering"
    /\ app' = [app EXCEPT
                 !.pc = "processing",
                 !.reviews_dataset =
                     SelectSeq(@, LAMBDA x : PassesProductFilter(x, DOMAIN product_cache))]
    /\ UNCHANGED <<gvars, cvars, qvars, mvars, threads, llm>>

CountOf(counts, asin) == IF asin \in DOMAIN counts THEN counts[asin] ELSE 0

\* Adding the embedded batch to the collection or the table
StoreBatch(a) == [a EXCEPT !.stored = @ \o a.batch, !.batch = <<>>]

\* One pass of the loop over the filtered reviews.  app.asin is the ASIN of the
\* review whose product was looked up last.
IngestReview ==
    /\ app.pc = "processing"
    /\ app.done < Len(app.reviews_dataset)
    /\ LET review == app.reviews_dataset[app.done + 1]
           asin == ReviewAsin(review)
           next == [app EXCEPT !.done = @ + 1]
       IN  app' =
             IF asin = "" THEN next
             ELSE IF CountOf(app.product_review_counts, asin) >= MAX_REVIEWS_PER_PRODUCT
             THEN next
             ELSE IF ~should_include_review(review)
             THEN [next EXCEPT !.reviews_skipped = @ + 1]
             ELSE IF asin \notin DOMAIN product_cache
             THEN [next EXCEPT !.pc = "raised", !.error = "KeyError", !.asin = asin]
             ELSE LET added ==
                        [next EXCEPT
                           !.asin = asin,
                           !.batch = Append(@, [asin |-> asin,
                                                product_name |-> product_cache[asin].title,
                                                review_rating |-> review.rating]),
                           !.reviews_processed = @ + 1,
                           !.product_review_counts =
                               [a \in DOMAIN @ \cup {asin} |->
                                   CountOf(app.product_review_counts, a)
                                     + (IF a = asin THEN 1 ELSE 0)]]
                  IN  IF Len(added.batch) >= BATCH_SIZE THEN StoreBatch(added) ELSE added
    /\ UNCHANGED <<gvars, cvars, qvars, mvars, threads, llm>>

\* After the loop: the remaining batch is stored.
IngestFinish ==
    /\ app.pc = "processing"
    /\ app.done = Len(app.reviews_dataset)
    /\ app' = [StoreBatch(app) EXCEPT !.pc = "complete"]
    /\ UNCHANGED <<gvars, cvars, qvars, mvars, threads, llm>>

IngestNext == IngestFilter \/ IngestReview \/ IngestFinish

SpecIngest == IngestInit /\ [][IngestNext]_vars

\* ---------------------------------------------------------------------------
\* Properties
\* ---------------------------------------------------------------------------
Called(service) == \E i \in 1..Len(calls) : calls[i] = service

TOO_SHORT == "Query too short (minimum 3 characters)"
TOO_LONG == "Query too long (maximum 500 characters)"
INJECTION == "Invalid query detected"

\* The query passes the emptiness, length and injection checks: validate_query
\* accepts it when the store is empty.
PassesContentChecks(query) == validate_query(<<>>, query, DEFAULT_USER, 0)[1]

MatchesInjection(query) == \E p \in PROMPT_INJECTION_PATTERNS : Search(p, query)

Validated == last.user # ""

\* C1: in both modes the guardrail is the first service a query calls; the
\* embedder, the retriever and the LLM are called only after validate_query has
\* accepted this query, and a rejected query has called nothing else.
C1_GuardrailFirst ==
    /\ calls # <<>> => calls[1] = "validate"
    /\ (Called("embed") \/ Called("retrieve") \/ Called("llm")) =>
          /\ calls[1] = "validate"
          /\ last.query = req.user_query
          /\ last.valid
    /\ (Called("validate") /\ ~last.valid) => calls = <<"validate">>

C1_Witness ==
    /\ mode = "FULL" /\ pc = "returned"
    /\ calls = <<"validate", "embed", "retrieve", "llm">>

\* C2: at no time does a user have more than 20 accepted calls within the last
\* 60 seconds, and an otherwise valid call made when 20 accepted calls lie
\* within the last 60 seconds is rejected as rate-limited.
C2_AtMost20PerWindow ==
    /\ \A u \in Users : Len(recent[u]) <= MAX_REQUESTS
    /\ (Validated /\ PassesContentChecks(last.query)
           /\ last.recent_before >= MAX_REQUESTS) =>
          ~last.valid /\ RateLimited(last.reason)

C2_Witness ==
    /\ Validated /\ PassesContentChecks(last.query)
    /\ last.recent_before = MAX_REQUESTS
    /\ ~last.valid /\ RateLimited(last.reason)

\* C3: an otherwise valid call made when fewer than 20 of the user's accepted
\* calls lie within the last 60 seconds is accepted, however many calls were
\* rejected since the last accepted one.
C3_AcceptedOnceWindowFrees ==
    (Validated /\ PassesContentChecks(last.query)
        /\ last.recent_before < MAX_REQUESTS) => last.valid

C3_Witness ==
    /\ Validated /\ last.valid
    /\ last.blocked_before >= MaxBlocked
    /\ last.recent_before < MAX_REQUESTS

\* C4 as stated: a query of fewer than 3 or more than 500 characters is
\* rejected with the reason that names the length limit it violates.
C4_LengthReason ==
    Validated =>
        /\ StrLen(last.query) < MIN_QUERY_LENGTH =>
              ~last.valid /\ last.reason = TOO_SHORT
        /\ StrLen(last.query) > MAX_QUERY_LENGTH =>
              ~last.valid /\ last.reason = TOO_LONG

\* C4 amended: a query whose text without surrounding white space is not empty
\* and has fewer than 3 or more than 500 characters is rejected with the reason
\* that names the length limit it violates, whatever the user and the state
\* of the rate-limit store.
C4_StrippedLengthReason ==
    (Validated /\ Strip(last.query) # <<>>) =>
        /\ StrLen(Strip(last.query)) < MIN_QUERY_LENGTH =>
              ~last.valid /\ last.reason = TOO_SHORT
        /\ StrLen(Strip(last.query)) > MAX_QUERY_LENGTH =>
              ~last.valid /\ last.reason = TOO_LONG

C4_Witness ==
    /\ Validated
    /\ StrLen(last.query) = MIN_QUERY_LENGTH
    /\ StrLen(Strip(last.query)) < MIN_QUERY_LENGTH
    /\ last.reason = TOO_SHORT
    /\ last.recent_before = MAX_REQUESTS

\* C5 as stated: a query that matches one of the injection patterns is rejected
\* with the reason "Invalid query detected".
C5_InjectionReason ==
    (Validated /\ MatchesInjection(last.query)) =>
        ~last.valid /\ last.reason = INJECTION

\* C5 amended: a query whose text without surrounding white space has at most
\* 500 characters and matches one of the injection patterns, in any letter
\* case, is rejected with the reason "Invalid query detected", which is the
\* same for every pattern and names none of them.
C5_StrippedInjectionReason ==
    (Validated /\ MatchesInjection(Strip(last.query))
        /\ StrLen(Strip(last.query)) <= MAX_QUERY_LENGTH) =>
        /\ ~last.valid
        /\ last.reason = INJECTION
        /\ \A p \in PROMPT_INJECTION_PATTERNS : last.reason # PatternText(p)

C5_Witness ==
    /\ Validated
    /\ \E i \in 1..Len(last.query) : last.query[i].w = "SYSTEM:"
    /\ ~last.valid /\ last.reason = INJECTION

\* C6: the result of a query that returned has num_documents_used equal to
\* the length of its retrieved_documents, in mock and in full mode.
C6_CountIsLength ==
    pc = "returned" =>
        result.num_documents_used = Len(result.retrieved_documents)

C6_Witness ==
    /\ pc = "returned" /\ mode = "FULL"
    /\ Len(result.retrieved_documents) = 1
    /\ req.top_k = MaxTopK

\* C7: without a supplied ASIN and with documents retrieved, the primary ASIN
\* is that of the first document, and product_metadata is its cache entry if it
\* has one.
C7_PrimaryIsFirstDocument ==
    (mode = "FULL" /\ pc = "generating" /\ ~Truthy(req.product_asin)
        /\ documents # <<>>) =>
        /\ primary_asin = documents[1].metadata.asin
        /\ primary_asin \in DOMAIN product_cache =>
              product_metadata = product_cache[primary_asin]

\* C8: with a supplied ASIN and no document retrieved, product_metadata is a
\* placeholder that is not empty.
C8_PlaceholderWithoutDocuments ==
    (mode = "FULL" /\ pc = "generating" /\ Truthy(req.product_asin)
        /\ documents = <<>>) =>
        product_metadata # EmptyMetadata

\* C9: every retrieved document lies under the distance threshold, has a text
\* of at least 30 characters and a rating above 0, with either backend.
C9_QualityThresholds ==
    (mode = "FULL" /\ pc = "resolving") =>
        \A i \in 1..Len(documents) :
            /\ documents[i].distance < DISTANCE_THRESHOLD
            /\ documents[i].text_chars >= MIN_REVIEW_CHARS
            /\ documents[i].metadata.review_rating > 0

\* C10: when a query has raised, in either mode, rag_errors_total is one more
\* than it was when the query started.
C10_ErrorCountedOnce ==
    pc = "raised" =>
        prom.rag_errors_total = at_start.prom.rag_errors_total + 1

\* C11: with validate_query calls of one user interleaving inside
\* _check_rate_limit, no more than 20 calls are accepted within one 60-second
\* window, and once the calls have returned every accepted timestamp of the
\* window is in the user's stored list.
C11_LimitUnderInterleaving ==
    /\ Len(recent[DEFAULT_USER]) <= MAX_REQUESTS
    /\ AllIdle =>
          \A ts \in Range(recent[DEFAULT_USER]) :
              Len(SelectSeq(StoredRequests(rate_limit_store, DEFAULT_USER), LAMBDA x : x = ts))
                >= Len(SelectSeq(recent[DEFAULT_USER], LAMBDA x : x = ts))

\* C12: a supplied product ASIN is the primary ASIN whatever the retrieved
\* documents are, and when it is a key of the product cache the result's
\* product_metadata is the cache entry of the supplied ASIN.
C12_SuppliedAsinIsPrimary ==
    /\ (mode = "FULL" /\ pc \in {"generating", "returned"} /\ Truthy(req.product_asin)) =>
          primary_asin = req.product_asin
    /\ (pc = "returned" /\ Truthy(req.product_asin)
           /\ req.product_asin \in DOMAIN product_cache) =>
          result.product_metadata = product_cache[req.product_asin]

C12_Witness ==
    /\ pc = "returned" /\ mode = "FULL"
    /\ req.product_asin = "A" /\ "A" \in DOMAIN product_cache
    /\ result.retrieved_documents = <<>>
    /\ result.product_metadata = CacheEntry("A")

\* C13: when the primary ASIN is not in the product cache and a document was
\* retrieved, product_metadata is built from the first document's metadata:
\* title from product_name, main_category from category, average_rating from
\* product_avg_rating, with no features and an empty description.
C13_FallbackFromFirstDocument ==
    (mode = "FULL" /\ pc = "generating" /\ documents # <<>>
        /\ primary_asin \notin DOMAIN product_cache) =>
        /\ product_metadata.title = documents[1].metadata.product_name
        /\ product_metadata.main_category = documents[1].metadata.category
        /\ product_metadata.average_rating = documents[1].metadata.product_avg_rating
        /\ product_metadata.features = <<>>
        /\ product_metadata.description = ""

C13_Witness ==
    /\ mode = "FULL" /\ pc = "generating"
    /\ Len(documents) >= 2
    /\ documents[1].metadata.asin # documents[Len(documents)].metadata.asin
    /\ primary_asin \notin DOMAIN product_cache
    /\ product_metadata.title = documents[1].metadata.product_name

\* C14: when the completion call fails, generate_response raises that error
\* and returns no text, and llm_errors_total has been incremented exactly
\* once.
C14_LlmErrorCountedOnce ==
    (llm.pc # "called" /\ llm.completion.error) =>
        /\ llm.pc = "raised"
        /\ llm.error = "APIError"
        /\ llm.response = <<>>
        /\ prom.llm_errors_total = 1
        /\ prom.llm_calls_total = 0

C14_Witness ==
    /\ llm.pc = "raised" /\ llm.completion.error
    /\ llm.documents # <<>>
    /\ prom.llm_errors_total = 1

\* C15: whatever text the LLM returns and whatever documents were retrieved,
\* generate_response returns the text unchanged and does not raise, also when
\* the grounding check finds an overlap below 0.3.
C15_GroundingCheckAdvisory ==
    (llm.pc # "called" /\ ~llm.completion.error /\ ~llm.completion.null
        /\ llm.completion.content # <<>>) =>
        /\ llm.pc = "returned"
        /\ llm.response = llm.completion.content

C15_Witness ==
    /\ llm.pc = "returned"
    /\ llm.log = "low"
    /\ llm.documents # <<>>
    /\ llm.response = llm.completion.content

ContainsEmail(s) == \E i \in 1..Len(s) : s[i].w = "a@b.com"

\* A number written ddd-ddd-dddd or (ddd) ddd-dddd
ContainsPhone(s) ==
    \E i \in 1..Len(s) :
        \/ s[i].w = "555-123-4567"
        \/ /\ s[i].w = "(555)"
           /\ i + 2 <= Len(s) /\ IsSpace(s[i + 1]) /\ s[i + 2].w = "123-4567"

\* C16: the prompt holds one review text per document, each the sanitized text
\* of its document, and none of them holds an email address or a phone number
\* of either format.
C16_PromptIsSanitized ==
    llm.pc # "called" =>
        /\ Len(llm.prompt.reviews) = Len(llm.documents)
        /\ \A i \in 1..Len(llm.documents) :
              /\ llm.prompt.reviews[i].text = _sanitize_text(llm.documents[i].text)
              /\ ~ContainsEmail(llm.prompt.reviews[i].text)
              /\ ~ContainsPhone(llm.prompt.reviews[i].text)

\* C17: a mock-mode query calls neither the embedder nor the retriever, and
\* one that passed the guardrail with top_k of 2 or more and returned has the
\* two hardcoded reviews, the hardcoded product, a response that is not empty
\* and num_documents_used = 2.
C17_MockAnswer ==
    /\ mode = "MOCK" => ~Called("embed") /\ ~Called("retrieve")
    /\ (mode = "MOCK" /\ pc = "returned" /\ req.top_k >= 2) =>
          /\ calls = <<"validate", "llm">>
          /\ Len(result.retrieved_documents) = 2
          /\ result.retrieved_documents[1].text = MOCK_REVIEW_1
          /\ result.retrieved_documents[2].text = MOCK_REVIEW_2
          /\ result.product_metadata.title = "Mock Product - Version A"
          /\ result.response # <<>>
          /\ result.num_documents_used = 2

C17_Witness ==
    /\ mode = "MOCK" /\ pc = "returned"
    /\ req.top_k = MaxTopK
    /\ result.response = ANSWER.content
    /\ result.num_documents_used = 2

\* C18: once startup has met a configuration error the service does not
\* serve: it takes no query, neither one it answers nor one it fails.
C18_ConfigurationErrorIsFatal ==
    app.startup_error =>
        /\ app.state # "serving"
        /\ app.failed = 0
        /\ pc = "idle"

IsPrefix(s, t) == Len(s) <= Len(t) /\ \A i \in 1..Len(s) : s[i] = t[i]

\* C19: the services a query calls are a prefix of guardrail, embedder,
\* retriever, LLM (guardrail, LLM in mock mode), so each is called at most
\* once and in that order; and once the query has raised, nothing more is
\* called for it.
C19_StrictlyLinear ==
    /\ [](IsPrefix(calls, IF mode = "MOCK" THEN <<"validate", "llm">>
                          ELSE <<"validate", "embed", "retrieve", "llm">>))
    /\ [][pc = "raised" => (calls' = calls \/ pc' = "validating")]_vars

C19_Witness ==
    /\ mode = "FULL" /\ pc = "raised"
    /\ calls = <<"validate", "embed", "retrieve">>

EMPTY == "Query cannot be empty"
TOO_MANY == "Too many requests. Maximum 20 per 1 minute(s)"

\* C20: the five rejection reasons differ pairwise, and a call carries the
\* reason of the first check it fails in the order empty, too short, too
\* long, injection, rate limit.
C20_FirstFailingCheck ==
    /\ Cardinality({EMPTY, TOO_SHORT, TOO_LONG, INJECTION, TOO_MANY}) = 5
    /\ Validated =>
          LET q == Strip(last.query) IN
          IF q = <<>> THEN ~last.valid /\ last.reason = EMPTY
          ELSE IF StrLen(q) < MIN_QUERY_LENGTH THEN ~last.valid /\ last.reason = TOO_SHORT
          ELSE IF StrLen(q) > MAX_QUERY_LENGTH THEN ~last.valid /\ last.reason = TOO_LONG
          ELSE IF MatchesInjection(q) THEN ~last.valid /\ last.reason = INJECTION
          ELSE IF last.recent_before >= MAX_REQUESTS
               THEN ~last.valid /\ last.reason = TOO_MANY
          ELSE last.valid

C20_Witness ==
    /\ Validated /\ ~last.valid
    /\ last.reason = TOO_LONG
    /\ MatchesInjection(Strip(last.query))
    /\ last.recent_before = MAX_REQUESTS

\* C21: when an ASIN filter is given, every document that retrieve returns
\* carries that ASIN, with either backend and every top_k.
C21_AsinFilter ==
    (mode # "MOCK" /\ pc \in {"resolving", "generating"} /\ Truthy(req.product_asin)) =>
        \A i \in 1..Len(documents) : documents[i].metadata.asin = req.product_asin

\* A filtered retrieval returned documents although the table holds a closer
\* review of another product.
C21_Witness ==
    /\ mode # "MOCK" /\ pc = "resolving" /\ req.product_asin = "A"
    /\ Len(documents) >= 1
    /\ \E i \in 1..Len(reviews) :
          /\ reviews[i].asin # "A"
          /\ reviews[i].distance <= documents[1].distance

ByDistance(docs) ==
    \A i, j \in 1..Len(docs) : i < j => docs[i].distance <= docs[j].distance

\* C22: the documents that retrieve returns are in non-decreasing order of
\* distance, and the pipeline hands them on in that order: the list is the same
\* from the retrieval to the result.
C22_DistanceOrder ==
    /\ [](mode # "MOCK" =>
            /\ pc \in {"resolving", "generating"} => ByDistance(documents)
            /\ pc = "returned" => /\ result.retrieved_documents = documents
                                  /\ ByDistance(result.retrieved_documents))
    /\ [][(mode # "MOCK" /\ pc \in {"resolving", "generating"}) =>
              documents' = documents]_vars

\* A query returned three documents at different distances.
C22_Witness ==
    /\ mode # "MOCK" /\ pc = "returned"
    /\ Len(result.retrieved_documents) = MaxTopK
    /\ result.retrieved_documents[1].distance < result.retrieved_documents[MaxTopK].distance

\* The timestamps of a user's list that lie inside the window that ends at t.
InWindow(user_requests, t) ==
    SelectSeq(user_requests, LAMBDA ts : t - ts < WINDOW_SECONDS)

\* C23: validate_query records a timestamp exactly when it accepts: an accepted
\* call leaves the user's list as its pruned window followed by the current time
\* and no other user's list changed; a rejected call, whatever the cause, leaves
\* every user's timestamps as they were.
C23_TimestampIffAccepted ==
    Validated =>
        IF last.valid
        THEN /\ rate_limit_store[last.user] =
                    Append(InWindow(StoredRequests(last.store_before, last.user), last.at),
                           last.at)
             /\ \A u \in Users \ {last.user} :
                    StoredRequests(rate_limit_store, u) = StoredRequests(last.store_before, u)
        ELSE \A u \in Users :
                    StoredRequests(rate_limit_store, u) = StoredRequests(last.store_before, u)

\* An accepted call found expired timestamps in the user's list.
C23_Witness ==
    /\ Validated /\ last.valid
    /\ Len(StoredRequests(last.store_before, last.user)) = MAX_REQUESTS
    /\ rate_limit_store[last.user] = <<last.at>>

\* A call was rejected by the rate limit with the user's list full.
C23_WitnessRejected ==
    /\ Validated /\ RateLimited(last.reason)
    /\ Len(StoredRequests(rate_limit_store, last.user)) = MAX_REQUESTS

\* C24: in full mode, after any interleaving of query starts, successes and
\* failures, the rag_active_requests gauge is the number of queries that are
\* executing: never negative, and 0 when none is in flight.
C24_GaugeCountsInFlight ==
    /\ prom.rag_active_requests = Cardinality(InFlight)
    /\ prom.rag_active_requests >= 0
    /\ InFlight = {} => prom.rag_active_requests = 0

\* Two queries are in flight after one query failed and one was answered.
C24_Witness ==
    /\ threads # <<>> /\ Cardinality(InFlight) = 2
    /\ prom.rag_active_requests = 2
    /\ prom.rag_errors_total = 1
    /\ prom.llm_calls_total > prom.llm_errors_total

\* The accepted requests inside the window, of all users
TotalRecent == Len(recent[DEFAULT_USER]) + Len(recent["u1"])

\* C25: every query that goes through RAGPipeline.query, in either mode and
\* whoever the caller, is validated as the user "default": never more than 20
\* queries are accepted within one window, and a query that passes the content
\* checks with 20 queries accepted in the window is rejected as rate-limited.
C25_OneSharedWindow ==
    /\ Called("validate") => last.user = DEFAULT_USER /\ last.query = req.user_query
    /\ TotalRecent <= MAX_REQUESTS
    /\ DOMAIN rate_limit_store \subseteq {DEFAULT_USER}
    /\ (Called("validate") /\ PassesContentChecks(req.user_query)
          /\ last.recent_before >= MAX_REQUESTS) =>
            /\ pc = "raised"
            /\ result = [error |-> "ValueError", message |-> <<"Invalid query: ", TOO_MANY>>]

\* The twentieth query of the window came from one session, and the query of
\* another session is rejected.
C25_Witness ==
    /\ app # <<>> /\ app.sessions = Sessions
    /\ pc = "raised" /\ Called("validate") /\ RateLimited(last.reason)
    /\ last.recent_before = MAX_REQUESTS
    /\ metrics.total_queries = MAX_REQUESTS + 1

\* C29: in the chat UI a query rejected by the rate limit is answered with
\* "Too many requests. Please wait a moment before trying again.", and a query
\* rejected as empty, too short or too long with the message of that cause.
C29_OwnMessagePerCause ==
    (app # <<>> /\ app.reply.kind = "error" /\ result.error = "ValueError") =>
        /\ RateLimited(last.reason) => app.reply.content = <<UI_RATE_LIMIT>>
        /\ last.reason = EMPTY => app.reply.content = <<UI_EMPTY>>
        /\ last.reason = TOO_SHORT => app.reply.content = <<UI_TOO_SHORT>>
        /\ last.reason = TOO_LONG => app.reply.content = <<UI_TOO_LONG>>

\* The length rejections do get their own messages.
C29_LengthMessages ==
    (app # <<>> /\ app.reply.kind = "error" /\ result.error = "ValueError") =>
        /\ last.reason = TOO_SHORT => app.reply.content = <<UI_TOO_SHORT>>
        /\ last.reason = TOO_LONG => app.reply.content = <<UI_TOO_LONG>>
        /\ last.reason \in {TOO_MANY, INJECTION} => app.reply.content = <<UI_REPHRASE>>
        /\ last.reason # EMPTY

\* C26: when the LLM call succeeds but the completion text is None or empty,
\* generate_response returns the fixed apology text: it neither raises nor
\* returns an empty string.
C26_ApologyForMissingText ==
    (llm.pc # "called" /\ ~llm.completion.error
        /\ (llm.completion.null \/ llm.completion.content = <<>>)) =>
        /\ llm.pc = "returned"
        /\ llm.response = APOLOGY

\* The empty completion does get the apology; the None completion raises.
C26_EmptyTextOnly ==
    (llm.pc # "called" /\ ~llm.completion.error) =>
        /\ (~llm.completion.null /\ llm.completion.content = <<>>) =>
              llm.pc = "returned" /\ llm.response = APOLOGY
        /\ llm.completion.null =>
              llm.pc = "raised" /\ llm.error = "TypeError" /\ prom.llm_errors_total = 1

\* C27: for every value of the mode flag the mode that query executes and the
\* mode that get_pipeline_status reports agree: a pipeline that runs the full
\* path (every flag other than MOCK) reports the retriever's count, the
\* embedder's dimension and the size of the cache, and a MOCK pipeline the
\* placeholders.
C27_StatusAgreesWithQuery ==
    (app # <<>> /\ app.status # NoStatus) =>
        IF mode = "MOCK"
        THEN /\ app.status.num_products = 0
             /\ app.status.embedding_dimension = 0
             /\ app.status.vector_db.count = 0
        ELSE /\ app.status.num_products = Cardinality(DOMAIN product_cache)
             /\ app.status.embedding_dimension = EMBEDDING_DIMENSION
             /\ app.status.vector_db.count = Len(reviews)

\* The agreement holds for the flags that mean FULL or MOCK.
C27_KnownFlags ==
    (app # <<>> /\ app.status # NoStatus /\ mode \in Modes) =>
        C27_StatusAgreesWithQuery

\* The query in hand was rejected by the guardrail.
Rejected == pc = "raised" /\ calls = <<"validate">>

\* C28: in both modes every query that the guardrail rejects increments
\* MetricsStore.guardrail_failures exactly once, and no other query does, so
\* the count in snapshot() is the number of rejected queries and never exceeds
\* total_queries.
C28_GuardrailFailuresCounted ==
    /\ metrics.guardrail_failures <= metrics.total_queries
    /\ at_start # <<>> =>
          metrics.guardrail_failures =
              at_start.metrics.guardrail_failures + (IF Rejected THEN 1 ELSE 0)

\* In MOCK mode the count is kept; in the full path MetricsStore never counts
\* a rejection, only the Prometheus counter does.
C28_MockOnly ==
    at_start # <<>> =>
        /\ mode = "MOCK" =>
              metrics.guardrail_failures =
                  at_start.metrics.guardrail_failures + (IF Rejected THEN 1 ELSE 0)
        /\ mode # "MOCK" =>
              /\ metrics.guardrail_failures = 0
              /\ prom.rag_guardrail_failures =
                    at_start.prom.rag_guardrail_failures + (IF Rejected THEN 1 ELSE 0)

\* C30: during ingestion, for every review that passed the product filter (its
\* parent_asin or its asin is a cached product), the ASIN under which it is
\* processed is a key of the product cache, so the lookup never fails.
C30_LookupNeverFails ==
    (app # <<>> /\ app.pc # "filtering") =>
        /\ app.error # "KeyError"
        /\ app.asin # "" => app.asin \in DOMAIN product_cache

\* The lookup is safe for the reviews whose parent_asin is missing or cached.
C30_ParentAsinCached ==
    (app # <<>> /\ app.pc = "processing"
        /\ \A i \in 1..Len(app.reviews_dataset) :
              app.reviews_dataset[i].parent_asin \in DOMAIN product_cache \cup {""}) =>
        /\ app.error = ""
        /\ app.asin # "" => app.asin \in DOMAIN product_cache

====
